---- MODULE Spec2Model ----
(***************************************************************************)
(* explode: move every direct child of a source directory into a          *)
(* destination directory, then remove the source directory                *)
(* (src/src/main.rs).                                                      *)
(*                                                                         *)
(* The filesystem is two sibling paths, the source "src" and the           *)
(* destination "dst".  Each is absent, a plain file, or a directory whose  *)
(* children are named by Names.  A child is absent, a plain file with a    *)
(* content, or a directory with a content token (0 is the empty            *)
(* directory) and a nesting depth: `nest` counts the extra directory       *)
(* levels of the child's own name wrapped around the content, so           *)
(* dst/d with nest = 1 holds dst/d/d/<content>.                            *)
(*                                                                         *)
(* The environment is deterministic apart from the listing order of        *)
(* read_dir and from whether source and destination lie on different       *)
(* devices (xdev); I/O failures unrelated to the tree (permissions, disk   *)
(* full, a failing terminal) are not modelled.                             *)
(***************************************************************************)
EXTENDS Integers, Sequences, FiniteSets, TLC

VARIABLES
    args,       \* Args: [force, dry_run]; source and destination are "src", "dst"
    xdev,       \* TRUE when source and destination are on different devices
    fs,         \* the filesystem: [src |-> node, dst |-> node]
    fs0,        \* the filesystem when the current invocation of explode started
    pc,         \* position of the current invocation
    listing,    \* the entries read_dir yields, in its order
    idx,        \* index into listing of the next entry of the for loop
    err,        \* the error explode returns, NoErr while none
    calls,      \* the mutating filesystem calls made by the current invocation
    lastMove,   \* the last call of move_or_copy: its inputs and outcome
    summary,    \* the "Exploded .. to .." line has been written
    runs,       \* number of invocations started
    prevErr     \* the error the previous invocation returned

vars == <<args, xdev, fs, fs0, pc, listing, idx, err, calls, lastMove, summary,
          runs, prevErr>>

----------------------------------------------------------------------------
(* Bounds *)

MaxData == 2        \* file contents are 1..MaxData
MaxRuns == 2        \* explode is invoked at most MaxRuns times in a row

Names == {"a", "b"}

----------------------------------------------------------------------------
(* The filesystem *)

None == [kind |-> "none", data |-> 0, nest |-> 0]
File(d) == [kind |-> "file", data |-> d, nest |-> 0]
Dir(d, n) == [kind |-> "dir", data |-> d, nest |-> n]

FileEntries == {File(d) : d \in 1..MaxData}
DirEntries == {Dir(d, 0) : d \in 0..1}
Entries == {None} \cup FileEntries \cup DirEntries

NoChildren == [n \in Names |-> None]
Absent == [kind |-> "none", children |-> NoChildren]
PlainFile == [kind |-> "file", children |-> NoChildren]
Directory(ch) == [kind |-> "dir", children |-> ch]

Nodes == {Absent, PlainFile} \cup {Directory(ch) : ch \in [Names -> Entries]}

exists(p) == p.kind # "none"
is_dir(p) == p.kind = "dir"
is_file(p) == p.kind = "file"

ChildNames(node) == {n \in Names : exists(node.children[n])}
IsEmptyDir(e) == is_dir(e) /\ e.data = 0 /\ e.nest = 0

NoErr == [kind |-> "Ok", msg |-> <<>>]
Error(k, m) == [kind |-> k, msg |-> m]

NoMove == [name |-> "", from |-> None, to |-> None, from1 |-> None, to1 |-> None,
           res |-> "none", calls |-> <<>>]

----------------------------------------------------------------------------
(* std::fs primitives on one entry of the source and one of the destination *)

Outcome(r, f, t, c) == [res |-> r, from |-> f, to |-> t, calls |-> c]

\* rename(from, to): EXDEV across devices; otherwise rename(2) on the kinds.
rename(from, to, x) ==
    IF x THEN Outcome("CrossesDevices", from, to, <<>>)
    ELSE IF is_dir(from) /\ is_file(to) THEN Outcome("NotADirectory", from, to, <<>>)
    ELSE IF is_dir(from) /\ is_dir(to) /\ ~IsEmptyDir(to)
         THEN Outcome("DirectoryNotEmpty", from, to, <<>>)
    ELSE IF ~is_dir(from) /\ is_dir(to) THEN Outcome("IsADirectory", from, to, <<>>)
    ELSE Outcome("Ok", None, from, <<"rename">>)

\* copy(from, to): writes from's bytes to the file to, creating or truncating it.
copy(from, to) ==
    IF is_dir(to) THEN Outcome("IsADirectory", from, to, <<>>)
    ELSE Outcome("Ok", from, File(from.data), <<"copy">>)

\* remove_file(from)
remove_file(from) == None

\* create_dir(to): fails when the path exists.
create_dir(to) ==
    IF exists(to) THEN Outcome("AlreadyExists", None, to, <<>>)
    ELSE Outcome("Ok", None, Dir(0, 0), <<"create_dir">>)

\* fs_extra::dir::move_dir(from, to, options) with the default options
\* (content_only = false) and an existing directory to: the tree of from is
\* copied to to/<name of from> and from is removed.  Here to is the empty
\* directory create_dir has just made, so nothing in it can be overwritten.
move_dir(from, to, overwrite) ==
    Outcome("Ok", None, Dir(from.data, from.nest + 1), <<"move_dir">>)

\* move_or_copy(from, to, overwrite) on devices x
move_or_copy(from, to, overwrite, x) ==
    LET r == rename(from, to, x) IN
    IF r.res = "CrossesDevices" THEN
        IF is_dir(from) THEN
            LET c == create_dir(to) IN
            IF c.res # "Ok" THEN Outcome(c.res, from, to, <<>>)
            ELSE LET m == move_dir(from, c.to, overwrite)
                 IN  Outcome(m.res, m.from, m.to, c.calls \o m.calls)
        ELSE
            LET c == copy(from, to) IN
            IF c.res # "Ok" THEN Outcome(c.res, from, to, <<>>)
            ELSE Outcome("Ok", remove_file(from), c.to, c.calls \o <<"remove_file">>)
    ELSE r

----------------------------------------------------------------------------
(* The functions of main.rs *)

Step(e, f, c, m) == [err |-> e, fs |-> f, calls |-> c, move |-> m]

\* Mutant of move_files: the destination is created in dry-run mode too.
move_files_eager(a, f) ==
    IF ~exists(f.src)
    THEN Step(Error("SourceNotFound", <<"Source path", "src", "does not exist">>),
              f, <<>>, NoMove)
    ELSE IF ~is_dir(f.src)
    THEN Step(Error("SourceNotADirectory",
                    <<"Source path", "src", "is not a directory">>), f, <<>>, NoMove)
    ELSE LET create == ~exists(f.dst)
             f1 == IF create THEN [f EXCEPT !.dst = Directory(NoChildren)] ELSE f
             c1 == IF create THEN <<"create_dir">> ELSE <<>>
         IN  IF exists(f1.dst) /\ ~is_dir(f1.dst)
             THEN Step(Error("TargetNotADirectory",
                             <<"Target path", "src", "is not a directory">>),
                       f1, c1, NoMove)
             ELSE Step(NoErr, f1, c1, NoMove)

\* Mutant of move_files: the destination is created before the source is checked.
move_files_createfirst(a, f) ==
    LET create == ~exists(f.dst) /\ ~a.dry_run
        f1 == IF create THEN [f EXCEPT !.dst = Directory(NoChildren)] ELSE f
        c1 == IF create THEN <<"create_dir">> ELSE <<>>
    IN  IF ~exists(f.src)
        THEN Step(Error("SourceNotFound", <<"Source path", "src", "does not exist">>),
                  f1, c1, NoMove)
        ELSE IF ~is_dir(f.src)
        THEN Step(Error("SourceNotADirectory",
                        <<"Source path", "src", "is not a directory">>), f1, c1, NoMove)
        ELSE IF exists(f1.dst) /\ ~is_dir(f1.dst)
        THEN Step(Error("TargetNotADirectory",
                        <<"Target path", "src", "is not a directory">>), f1, c1, NoMove)
        ELSE Step(NoErr, f1, c1, NoMove)

\* move_files, lines 76-87: the checks before the listing.
move_files(a, f) ==
    IF ~exists(f.src)
    THEN Step(Error("SourceNotFound", <<"Source path", "src", "does not exist">>),
              f, <<>>, NoMove)
    ELSE IF ~is_dir(f.src)
    THEN Step(Error("SourceNotADirectory",
                    <<"Source path", "src", "is not a directory">>), f, <<>>, NoMove)
    ELSE LET create == ~exists(f.dst) /\ ~a.dry_run
             f1 == IF create THEN [f EXCEPT !.dst = Directory(NoChildren)] ELSE f
             c1 == IF create THEN <<"create_dir">> ELSE <<>>
         IN  IF exists(f1.dst) /\ ~is_dir(f1.dst)
             THEN Step(Error("TargetNotADirectory",
                             <<"Target path", "src", "is not a directory">>),
                       f1, c1, NoMove)
             ELSE Step(NoErr, f1, c1, NoMove)

\* Mutant of What: the two labels are swapped.
What_swapped(from) ==
    IF is_dir(from) THEN "File" ELSE IF is_file(from) THEN "Dir" ELSE "Entry"

\* The classification of move_path, lines 103-107.
What(from) ==
    IF is_dir(from) THEN "Dir" ELSE IF is_file(from) THEN "File" ELSE "Entry"

\* Mutant of move_path: dry-run returns before the destination is looked at.
move_path_dryfirst(a, f, name, x) ==
    LET from == f.src.children[name]
        to == f.dst.children[name]
    IN  IF a.dry_run THEN Step(NoErr, f, <<>>, NoMove)
        ELSE IF exists(to) /\ ~a.force
        THEN Step(Error("AlreadyExists", <<What(from), name, "already exists in", "dst">>),
                  f, <<>>, NoMove)
        ELSE LET r == move_or_copy(from, to, a.force, x)
                 f1 == [f EXCEPT !.src.children[name] = r.from,
                                 !.dst.children[name] = r.to]
                 m == [name |-> name, from |-> from, to |-> to, from1 |-> r.from,
                       to1 |-> r.to, res |-> r.res, calls |-> r.calls]
             IN  IF r.res # "Ok"
                 THEN Step(Error("MoveOrCopy",
                                 <<"Failed to move or copy", "src", name, "to", "dst", name>>),
                           f1, r.calls, m)
                 ELSE Step(NoErr, f1, r.calls, m)

\* Mutant of move_path: the entry is transferred first and the collision is
\* reported afterwards.
move_path_late(a, f, name, x) ==
    LET from == f.src.children[name]
        to == f.dst.children[name]
        r == move_or_copy(from, to, a.force, x)
        f1 == IF a.dry_run THEN f
              ELSE [f EXCEPT !.src.children[name] = r.from,
                             !.dst.children[name] = r.to]
        m == [name |-> name, from |-> from, to |-> to, from1 |-> r.from,
              to1 |-> r.to, res |-> r.res, calls |-> r.calls]
    IN  IF exists(to) /\ ~a.force
        THEN Step(Error("AlreadyExists", <<What(from), name, "already exists in", "dst">>),
                  f1, IF a.dry_run THEN <<>> ELSE r.calls, NoMove)
        ELSE IF a.dry_run THEN Step(NoErr, f, <<>>, NoMove)
        ELSE IF r.res # "Ok"
        THEN Step(Error("MoveOrCopy", <<"Failed to move or copy", "src", name, "to", "dst", name>>),
                  f1, r.calls, m)
        ELSE Step(NoErr, f1, r.calls, m)

\* move_path(term, args, from, to) for the child `name`, where from is
\* source/name and to is destination/name (line 93).
move_path(a, f, name, x) ==
    LET from == f.src.children[name]
        to == f.dst.children[name]
    IN  IF exists(to) /\ ~a.force
        THEN Step(Error("AlreadyExists", <<What(from), name, "already exists in", "dst">>),
                  f, <<>>, NoMove)
        ELSE IF a.dry_run THEN Step(NoErr, f, <<>>, NoMove)
        ELSE LET r == move_or_copy(from, to, a.force, x)
                 f1 == [f EXCEPT !.src.children[name] = r.from,
                                 !.dst.children[name] = r.to]
                 m == [name |-> name, from |-> from, to |-> to, from1 |-> r.from,
                       to1 |-> r.to, res |-> r.res, calls |-> r.calls]
             IN  IF r.res # "Ok"
                 THEN Step(Error("MoveOrCopy",
                                 <<"Failed to move or copy", "src", name, "to", "dst", name>>),
                           f1, r.calls, m)
                 ELSE Step(NoErr, f1, r.calls, m)

\* remove_source_directory: remove_dir fails on a directory that is not empty.
remove_source_directory(a, f) ==
    IF a.dry_run THEN Step(NoErr, f, <<>>, NoMove)
    ELSE IF ChildNames(f.src) # {}
    THEN Step(Error("RemoveDir", <<"Failed to remove directory", "src">>),
              f, <<>>, NoMove)
    ELSE Step(NoErr, [f EXCEPT !.src = Absent], <<"remove_dir">>, NoMove)

----------------------------------------------------------------------------
(* The state machine: one invocation of explode after another *)

Perms(S) ==
    {s \in [1..Cardinality(S) -> S] : \A i, j \in 1..Cardinality(S) : s[i] = s[j] => i = j}

Init ==
    /\ args \in [force : BOOLEAN, dry_run : BOOLEAN]
    /\ xdev \in BOOLEAN
    /\ fs \in [src : Nodes, dst : Nodes]
    /\ fs0 = fs
    /\ pc = "move_files"
    /\ listing = <<>>
    /\ idx = 1
    /\ err = NoErr
    /\ calls = <<>>
    /\ lastMove = NoMove
    /\ summary = FALSE
    /\ runs = 1
    /\ prevErr = NoErr

\* explode line 53, move_files lines 76-87
MoveFiles ==
    /\ pc = "move_files"
    /\ LET s == move_files(args, fs) IN
        /\ fs' = s.fs
        /\ err' = s.err
        /\ calls' = calls \o s.calls
        /\ pc' = IF s.err = NoErr THEN "read_dir" ELSE "failed"
    /\ UNCHANGED <<args, xdev, fs0, listing, idx, lastMove, summary, runs, prevErr>>

\* move_files lines 89-90: read_dir yields the children in some order.
ReadDir ==
    /\ pc = "read_dir"
    /\ \E s \in Perms(ChildNames(fs.src)) :
        /\ listing' = s
        /\ idx' = 1
        /\ pc' = IF Len(s) = 0 THEN "remove_source_directory" ELSE "move_path"
    /\ UNCHANGED <<args, xdev, fs, fs0, err, calls, lastMove, summary, runs, prevErr>>

\* Mutant of MovePath: the error of move_path is dropped and the loop goes on.
MovePath_swallow ==
    /\ pc = "move_path"
    /\ idx <= Len(listing)
    /\ LET s == move_path(args, fs, listing[idx], xdev) IN
        /\ fs' = s.fs
        /\ err' = NoErr
        /\ calls' = calls \o s.calls
        /\ lastMove' = s.move
        /\ idx' = idx + 1
        /\ pc' = IF idx + 1 > Len(listing) THEN "remove_source_directory"
                 ELSE "move_path"
    /\ UNCHANGED <<args, xdev, fs0, listing, summary, runs, prevErr>>

\* move_files lines 92-96: one iteration of the for loop.
MovePath ==
    /\ pc = "move_path"
    /\ idx <= Len(listing)
    /\ LET s == move_path(args, fs, listing[idx], xdev) IN
        /\ fs' = s.fs
        /\ err' = s.err
        /\ calls' = calls \o s.calls
        /\ lastMove' = s.move
        /\ idx' = IF s.err = NoErr THEN idx + 1 ELSE idx
        /\ pc' = IF s.err # NoErr THEN "failed"
                 ELSE IF idx + 1 > Len(listing) THEN "remove_source_directory"
                 ELSE "move_path"
    /\ UNCHANGED <<args, xdev, fs0, listing, summary, runs, prevErr>>

\* explode line 54
RemoveSourceDirectory ==
    /\ pc = "remove_source_directory"
    /\ LET s == remove_source_directory(args, fs) IN
        /\ fs' = s.fs
        /\ err' = s.err
        /\ calls' = calls \o s.calls
        /\ pc' = IF s.err = NoErr THEN "summary" ELSE "failed"
    /\ UNCHANGED <<args, xdev, fs0, listing, idx, lastMove, summary, runs, prevErr>>

\* explode lines 56-63
Summary ==
    /\ pc = "summary"
    /\ summary' = TRUE
    /\ pc' = "done"
    /\ UNCHANGED <<args, xdev, fs, fs0, listing, idx, err, calls, lastMove, runs, prevErr>>

\* explode is called again with the same arguments on the tree the last call left.
Reinvoke ==
    /\ pc \in {"done", "failed"}
    /\ runs < MaxRuns
    /\ runs' = runs + 1
    /\ prevErr' = err
    /\ fs0' = fs
    /\ pc' = "move_files"
    /\ listing' = <<>>
    /\ idx' = 1
    /\ err' = NoErr
    /\ calls' = <<>>
    /\ lastMove' = NoMove
    /\ summary' = FALSE
    /\ UNCHANGED <<args, xdev, fs>>

Next ==
    \/ MoveFiles
    \/ ReadDir
    \/ MovePath
    \/ RemoveSourceDirectory
    \/ Summary
    \/ Reinvoke

Spec == Init /\ [][Next]_vars

Returned == pc \in {"done", "failed"}

----------------------------------------------------------------------------
(* Vocabulary of the properties *)

Range(q) == {q[i] : i \in 1..Len(q)}

\* The children of source when the invocation started, and those among them
\* whose name was already taken in destination.
Children0 == ChildNames(fs0.src)
Collisions0 == {n \in Children0 : exists(fs0.dst.children[n])}

\* The invocation really moves: dry-run is off and source is a directory.
RealRun == ~args.dry_run /\ is_dir(fs0.src)

\* The label move_path puts in front of the AlreadyExists message.
KindLabel(e) == IF e.kind = "dir" THEN "Dir" ELSE "File"

\* The last call of move_or_copy took the cross-device fallback for a directory
\* and got as far as move_dir.
DirFallback == lastMove.calls = <<"create_dir", "move_dir">>

----------------------------------------------------------------------------
(* C1: for a non-empty source directory none of whose child names is taken  *)
(* in destination, a non-dry-run explode succeeds, source is gone,          *)
(* destination exists and every original child is under destination with    *)
(* the same name and unchanged content.  Violated by the code: a            *)
(* subdirectory moved across devices ends up one level too deep.            *)
C1_LosslessMove ==
    (Returned /\ RealRun /\ Children0 # {} /\ ~is_file(fs0.dst) /\ Collisions0 = {})
        => /\ pc = "done"
           /\ ~exists(fs.src)
           /\ is_dir(fs.dst)
           /\ \A n \in Children0 : fs.dst.children[n] = fs0.src.children[n]

(* C2: with dry-run enabled, in every state of the run the source and the   *)
(* destination tree equal their state before the invocation and no          *)
(* mutating filesystem call has been made.                                   *)
C2_DryRunNoMutation ==
    args.dry_run => (fs = fs0 /\ calls = <<>>)

\* A dry run over a non-empty source with a missing destination has returned.
C2_Witness ==
    /\ args.dry_run
    /\ pc = "done"
    /\ Children0 # {}
    /\ ~exists(fs0.dst)

(* C3, as claimed: explode with dry-run enabled returns Ok for any input.   *)
C3_DryRunAlwaysOk ==
    (args.dry_run /\ Returned) => pc = "done"

(* C3, amended: explode with dry-run enabled returns Ok exactly when source *)
(* is a directory, destination is absent or a directory, and force is set   *)
(* or no child name of source is taken in destination; otherwise it returns *)
(* the error of the first check that fails.                                 *)
C3_DryRunOkIffPreconditions ==
    (args.dry_run /\ Returned) =>
        /\ pc = "done" <=> /\ is_dir(fs0.src)
                           /\ ~is_file(fs0.dst)
                           /\ (args.force \/ Collisions0 = {})
        /\ pc = "failed" =>
              err.kind = IF ~exists(fs0.src) THEN "SourceNotFound"
                         ELSE IF ~is_dir(fs0.src) THEN "SourceNotADirectory"
                         ELSE IF is_file(fs0.dst) THEN "TargetNotADirectory"
                         ELSE "AlreadyExists"

\* A dry run with force has returned Ok although a child name is taken.
C3_Witness ==
    /\ args.dry_run
    /\ args.force
    /\ pc = "done"
    /\ Collisions0 # {}

(* C4, as claimed: on a collision without force a non-dry-run explode fails *)
(* with AlreadyExists and every original child is still in source,          *)
(* wherever the colliding entry stands in the listing.                      *)
C4_SourceFullyIntact ==
    (Returned /\ RealRun /\ ~args.force /\ Collisions0 # {})
        => /\ err.kind = "AlreadyExists"
           /\ fs.src = fs0.src

(* C4, amended: on a collision without force a non-dry-run explode fails    *)
(* with "<Kind> <name> already exists in <destination>" for the first       *)
(* colliding entry of the listing; the source directory still exists and    *)
(* the colliding entry and every entry listed after it are still in source  *)
(* unchanged, so source is fully intact when the colliding entry is listed  *)
(* first.                                                                   *)
C4_SourceIntactFromCollision ==
    (Returned /\ RealRun /\ ~args.force /\ Collisions0 # {})
        => /\ pc = "failed"
           /\ idx \in 1..Len(listing)
           /\ listing[idx] \in Collisions0
           /\ \A i \in 1..(idx - 1) : listing[i] \notin Collisions0
           /\ err = Error("AlreadyExists",
                          <<KindLabel(fs0.src.children[listing[idx]]), listing[idx],
                            "already exists in", "dst">>)
           /\ is_dir(fs.src)
           /\ \A i \in idx..Len(listing) :
                 fs.src.children[listing[i]] = fs0.src.children[listing[i]]
           /\ (idx = 1 => fs.src = fs0.src)

\* The colliding entry was listed second: one entry had left source before.
C4_Witness ==
    /\ pc = "failed"
    /\ RealRun
    /\ ~args.force
    /\ err.kind = "AlreadyExists"
    /\ idx = 2
    /\ fs.src # fs0.src

(* C5: on a collision with force, on one device, a non-dry-run explode      *)
(* succeeds, source is removed and the destination entry holds the content  *)
(* of the source entry of the same name, whatever the kinds of the two.     *)
(* Violated by the code: rename does not replace a directory by a file, a   *)
(* file by a directory, or a directory that is not empty.                   *)
C5_ForceOverwrites ==
    (Returned /\ RealRun /\ args.force /\ ~xdev /\ Collisions0 # {})
        => /\ pc = "done"
           /\ ~exists(fs.src)
           /\ \A n \in Collisions0 : fs.dst.children[n] = fs0.src.children[n]

(* C6: when source does not exist, or is not a directory, or destination    *)
(* exists and is not a directory, explode fails with the error of that      *)
(* check and has changed nothing and called nothing that mutates; explode   *)
(* called again on a missing source fails with the same error and creates   *)
(* nothing.                                                                 *)
C6_PreconditionFailures ==
    /\ (Returned /\ (~is_dir(fs0.src) \/ is_file(fs0.dst)))
          => /\ pc = "failed"
             /\ fs = fs0
             /\ calls = <<>>
             /\ err.kind = IF ~exists(fs0.src) THEN "SourceNotFound"
                           ELSE IF ~is_dir(fs0.src) THEN "SourceNotADirectory"
                           ELSE "TargetNotADirectory"
    /\ (Returned /\ runs > 1 /\ ~exists(fs0.src))
          => /\ err = Error("SourceNotFound", <<"Source path", "src", "does not exist">>)
             /\ fs = fs0
             /\ (prevErr.kind = "SourceNotFound" => err = prevErr)

\* explode has failed twice on a missing source and destination is still missing.
C6_Witness ==
    /\ runs = 2
    /\ pc = "failed"
    /\ ~args.dry_run
    /\ prevErr.kind = "SourceNotFound"
    /\ err = prevErr
    /\ ~exists(fs.dst)

(* C7: remove_source_directory is reached only after every listed child has *)
(* been transferred without error; when move_files fails, remove_dir has    *)
(* not been called, source is what it was (a source directory still         *)
(* exists) and the summary line is not written.                             *)
C7_RemoveOnlyAfterAllMoved ==
    /\ (pc \in {"remove_source_directory", "summary", "done"}
            \/ "remove_dir" \in Range(calls) \/ summary)
          => /\ is_dir(fs0.src)
             /\ ~is_file(fs0.dst)
             /\ Range(listing) = Children0
             /\ idx = Len(listing) + 1
             /\ \A n \in Children0 :
                   \/ args.dry_run
                   \/ ~exists(fs.src.children[n]) /\ exists(fs.dst.children[n])
             /\ (args.force \/ Collisions0 = {})
    /\ pc = "failed"
          => /\ "remove_dir" \notin Range(calls)
             /\ ~summary
             /\ fs.src.kind = fs0.src.kind
    /\ summary => pc = "done"

\* move_files failed on its second entry: the first one had been moved.
C7_Witness ==
    /\ pc = "failed"
    /\ RealRun
    /\ idx = 2
    /\ err.kind = "MoveOrCopy"
    /\ is_dir(fs.src)

(* C8: when a non-force, non-dry-run explode hits an entry whose destination *)
(* path exists, exactly the entries listed before it have left source and    *)
(* are in destination, the colliding entry and all entries listed after it   *)
(* are still in source and their destination paths are untouched, and the    *)
(* pre-existing destination entries are unchanged.                           *)
C8_AbortWithoutRollback ==
    (pc = "failed" /\ ~args.dry_run /\ err.kind = "AlreadyExists")
        => /\ idx \in 1..Len(listing)
           /\ exists(fs0.dst.children[listing[idx]])
           /\ \A i \in 1..(idx - 1) :
                 /\ ~exists(fs.src.children[listing[i]])
                 /\ exists(fs.dst.children[listing[i]])
                 /\ ~exists(fs0.dst.children[listing[i]])
                 /\ (~xdev => fs.dst.children[listing[i]] = fs0.src.children[listing[i]])
           /\ \A i \in idx..Len(listing) :
                 /\ fs.src.children[listing[i]] = fs0.src.children[listing[i]]
                 /\ fs.dst.children[listing[i]] = fs0.dst.children[listing[i]]
           /\ \A n \in Names :
                 exists(fs0.dst.children[n]) => fs.dst.children[n] = fs0.dst.children[n]
           /\ Len(calls) >= idx - 1

\* The collision came second: the first entry was moved and stays moved.
C8_Witness ==
    /\ pc = "failed"
    /\ ~args.dry_run
    /\ err.kind = "AlreadyExists"
    /\ idx = 2
    /\ ~exists(fs.src.children[listing[1]])
    /\ exists(fs.src.children[listing[2]])

(* C9: when rename fails with the cross-device error and from is a plain     *)
(* file, move_or_copy copies from to to, then removes from, returns Ok, and  *)
(* leaves to with from's content and from gone, as a successful rename       *)
(* would; any other rename error is returned as it is, without a copy or a   *)
(* delete.  Violated by the code: with force and an existing directory at    *)
(* to, copy fails and move_or_copy returns its error.                        *)
C9_FileFallbackSucceeds ==
    /\ (lastMove.res # "none" /\ xdev /\ is_file(lastMove.from)) =>
          /\ lastMove.res = "Ok"
          /\ lastMove.calls = <<"copy", "remove_file">>
          /\ lastMove.to1 = lastMove.from
          /\ lastMove.from1 = None
          /\ fs.dst.children[lastMove.name] = lastMove.from
          /\ ~exists(fs.src.children[lastMove.name])
    /\ (lastMove.res # "none" /\ ~xdev /\ lastMove.res # "Ok") =>
          /\ lastMove.res \in {"NotADirectory", "DirectoryNotEmpty", "IsADirectory"}
          /\ lastMove.calls = <<>>
          /\ lastMove.from1 = lastMove.from
          /\ lastMove.to1 = lastMove.to
          /\ pc = "failed"
          /\ err.kind = "MoveOrCopy"

(* C10: after the cross-device fallback has transferred a child directory   *)
(* the original subdirectory is still under source, so when explode         *)
(* returns it has failed and the source directory still exists.  Violated   *)
(* by the code: move_dir removes the original, remove_source_directory      *)
(* succeeds and explode returns Ok.                                         *)
C10_OriginalSurvives ==
    /\ DirFallback => exists(fs.src.children[lastMove.name])
    /\ ("move_dir" \in Range(calls) /\ Returned)
          => /\ pc = "failed"
             /\ is_dir(fs.src)

====
